---- MODULE Spec2Model ----
(***************************************************************************)
(* Trip stop ordering and route-segment cache of google-timeline           *)
(* (src/server.ts over the tables of src/schema.sql).                      *)
(*                                                                         *)
(* The state is the content of the tables trips, trip_stops and            *)
(* trip_route_segments, and per client the handler it has running.  A      *)
(* handler runs one statement per step: every `await db` is committed when *)
(* it returns (no handler opens a transaction), so a statement that raises *)
(* leaves the earlier statements committed, and between two statements of  *)
(* a handler the statements of any other handler may run.                  *)
(***************************************************************************)
EXTENDS Integers, Sequences, FiniteSets, TLC

\* ---------------------------------------------------------------- bounds
MaxTrips == 2          \* trip ids a request can name (SERIAL ids 1..MaxTrips)
MaxStops == 3          \* stops ever created (SERIAL ids 1..MaxStops)
MaxPosition == 2       \* largest explicit position a request carries
MaxOrderLen == 3       \* longest reorder list a request carries
NumRoutes == 2         \* distinct routes the provider can answer with
NumClients == 2        \* clients with a request in flight at the same time

TripIds == 1..MaxTrips
StopIds == 1..MaxStops
\* explicit positions of add-stop requests; -1 is a position below every stop
Positions == (-1)..MaxPosition
\* no stop is added to a trip that already holds a stop at this position
TopPosition == MaxPosition + 1
\* the provider answers a call with a route or fails
Routes == 1..NumRoutes
Failure == 0
\* timeline_entries is filled by the import pipeline: entry 1 exists, 2 does not
TimelineEntries == {1}
EntryRefs == {0, 1, 2}    \* 0: the request has no timeline_entry_id

VARIABLES
  trips,        \* ids of the rows of table trips
  stops,        \* rows of trip_stops
  segments,     \* rows of trip_route_segments
  nextTripId,   \* trips_id_seq
  nextStopId,   \* trip_stops_id_seq
  lastRoutes,   \* per trip: outcome of the last force=false route generation,
                \* "none" once the trip was mutated after it
  aborted,      \* some request so far ended in an error response
  reqs          \* per client: the handler it has running, statement by statement

vars == <<trips, stops, segments, nextTripId, nextStopId, lastRoutes, aborted,
          reqs>>

\* ------------------------------------------------------------ table helpers
TripStops(S, tripId) == {s \in S : s.trip_id = tripId}

TripSegments(G, tripId) == {g \in G : g.trip_id = tripId}

\* ORDER BY position
RECURSIVE OrderByPosition(_)
OrderByPosition(S) ==
  IF S = {} THEN <<>>
  ELSE LET m == CHOOSE s \in S : \A o \in S : s.position <= o.position
       IN <<m>> \o OrderByPosition(S \ {m})

\* C28 mutant: ORDER BY ts.position DESC
loadStopsDescending(S, tripId) ==
  LET list == OrderByPosition(TripStops(S, tripId))
  IN [i \in 1..Len(list) |-> list[Len(list) + 1 - i]]

loadStopsWithCoords(S, tripId) == OrderByPosition(TripStops(S, tripId))

\* COALESCE(MAX(position), -1)
MaxPositionOf(S, tripId) ==
  LET T == TripStops(S, tripId)
  IN IF T = {} THEN -1
     ELSE (CHOOSE s \in T : \A o \in T : o.position <= s.position).position

\* UPDATE trip_stops SET position = position + delta WHERE <rows>
ShiftPositions(S, rows, delta) ==
  {IF s \in rows THEN [s EXCEPT !.position = s.position + delta] ELSE s : s \in S}

\* unique_position_per_trip is checked row by row while an UPDATE runs.  The
\* order in which the rows are visited is not specified: the statement raises
\* for certain when a moved row lands on a row that does not move, and it may
\* raise when it lands on a row that moves later.
ShiftMustRaise(S, tripId, rows, delta) ==
  \E r \in rows : \E u \in TripStops(S, tripId) \ rows :
     u.position = r.position + delta

ShiftMayRaise(S, tripId, rows, delta) ==
  \E r \in rows : \E u \in TripStops(S, tripId) \ {r} :
     u.position = r.position + delta

\* C7 mutant: the reorder handler forgets to invalidate
KeepTripSegments(G, tripId) == G

\* DELETE FROM trip_route_segments WHERE trip_id = ..
DeleteTripSegments(G, tripId) == G \ TripSegments(G, tripId)

\* C36 mutant: deleting a stop leaves its segments
CascadeStopsKeeps(G, gone) == G

\* ON DELETE CASCADE of from_stop_id / to_stop_id
CascadeStops(G, gone) ==
  {g \in G : g.from_stop_id \notin gone /\ g.to_stop_id \notin gone}

\* C23 mutant: the stops of a deleted trip stay
CascadeTripKeeps(S, id) == S

\* trip_stops.trip_id REFERENCES trips(id) ON DELETE CASCADE
CascadeTrip(S, id) == {s \in S : s.trip_id # id}

\* ------------------------------------------------- requests and responses
NoBody == [position |-> <<>>, timeline_entry_id |-> 0, latlng |-> FALSE]

Snapshot == [stops |-> stops, segments |-> segments]

NoSnapshot == [stops |-> {}, segments |-> {}]

\* what a client keeps of a response for its next request
NoKept == [stop |-> 0, position |-> 0, before |-> NoSnapshot]

Clients == 1..NumClients

\* A handler that runs one statement at a time.  `pc` is the statement it is
\* about to issue; trip, body, stopId, order, isArray, named and force are the
\* request; position, stop, neighbors, list, i and route are the handler's
\* local variables; status, error, features, shown and pair are the response
\* (`pair` is the pair of stops an error response names: fetchRouteSegment
\* puts only the provider's code in its message and no handler catches it, so
\* no response sets it).  The other fields observe the run: the provider
\* calls it issued, the outcome of the route generation before it, whether
\* no statement of another handler ran since it arrived, and the stops and
\* segments as they were when it arrived.
NoRequest ==
  [op |-> "none", pc |-> "idle", trip |-> 0, status |-> 0, error |-> "",
   body |-> NoBody, stopId |-> 0, order |-> <<>>, isArray |-> TRUE,
   named |-> TRUE, force |-> FALSE,
   position |-> 0, stop |-> 0, neighbors |-> <<>>, list |-> <<>>, i |-> 0,
   route |-> 0, features |-> {}, shown |-> <<>>, pair |-> <<>>,
   calls |-> <<>>, previous |-> "none", alone |-> FALSE, before |-> NoSnapshot,
   kept |-> NoKept]

\* a request and its response, as the caller sees them
NoResponse ==
  [op |-> "none", trip |-> 0, status |-> 0, error |-> "",
   body |-> NoBody, stopId |-> 0, order |-> <<>>, isArray |-> TRUE,
   force |-> FALSE, stop |-> 0, position |-> 0, neighbors |-> <<>>,
   calls |-> <<>>, route |-> {}, previous |-> "none", pair |-> <<>>]

Response(r) ==
  [op |-> r.op, trip |-> r.trip, status |-> r.status, error |-> r.error,
   body |-> r.body, stopId |-> r.stopId, order |-> r.order,
   isArray |-> r.isArray, force |-> r.force, stop |-> r.stop,
   position |-> r.position, neighbors |-> r.neighbors, calls |-> r.calls,
   route |-> r.features, previous |-> r.previous, pair |-> r.pair]

\* C31 mutant: a statement waits while the provider call of a request is
\* outstanding, as under a lock held across the call
AtUnlessCallOutstanding(c, op, pc) ==
  /\ reqs[c].op = op
  /\ reqs[c].pc = pc
  /\ pc # "fetch" => \A d \in Clients : reqs[d].pc # "fetch"

At(c, op, pc) == reqs[c].op = op /\ reqs[c].pc = pc

\* the handler of client c is between two statements
Running(c) == reqs[c].pc \notin {"idle", "done", "failed", "crashed"}

\* the handler of client c has returned its response
Returned(c) == reqs[c].pc \in {"done", "failed"}

\* the handler of client c has returned and, from the arrival of its request
\* on, no statement of another handler ran: the request ran on its own
Settled(c) == Returned(c) /\ reqs[c].alone

\* the last request that ran on its own, with its response
resp ==
  IF \E c \in Clients : Settled(c)
  THEN Response(reqs[CHOOSE c \in Clients : Settled(c)])
  ELSE NoResponse

\* stops and segments as they were when that request arrived
pre ==
  IF \E c \in Clients : Settled(c)
  THEN reqs[CHOOSE c \in Clients : Settled(c)].before
  ELSE NoSnapshot

\* no handler is between two statements
Quiet == \A c \in Clients : ~Running(c)

\* a statement of another handler ran
Disturbed(r) ==
  IF r.pc = "idle" THEN r
  ELSE [r EXCEPT !.alone = FALSE, !.before = NoSnapshot]

\* client c has no request in flight
Free(c) == reqs[c].pc = "idle"

\* the request of client c arrives: its handler starts
Arrive(c, request) ==
  /\ LET alone == \A d \in Clients \ {c} : ~Running(d)
     IN reqs' = [reqs EXCEPT ![c] =
                   [request EXCEPT !.alone = alone,
                                   !.before = IF alone THEN Snapshot ELSE NoSnapshot,
                                   !.kept = reqs[c].kept]]
  /\ UNCHANGED <<trips, stops, segments, nextTripId, nextStopId, lastRoutes,
                 aborted>>

\* the handler of client c has run a statement and goes on as `request`;
\* when it returns, an error response is recorded
Goto(c, request) ==
  /\ reqs' = [d \in Clients |-> IF d = c THEN request ELSE Disturbed(reqs[d])]
  /\ aborted' = (aborted \/ (/\ request.pc \in {"done", "failed"}
                             /\ request.status >= 400))

\* a request that changes nothing of a trip leaves lastRoutes alone
Mutated(tripId) ==
  IF tripId \in DOMAIN lastRoutes
  THEN [lastRoutes EXCEPT ![tripId] = "none"]
  ELSE lastRoutes

\* the database right after schema.sql
InitEmpty ==
  /\ trips = {}
  /\ stops = {}
  /\ segments = {}
  /\ nextTripId = 1
  /\ nextStopId = 1
  /\ lastRoutes = [t \in TripIds |-> "none"]
  /\ aborted = FALSE
  /\ reqs = [c \in Clients |-> NoRequest]

\* the database after the first POST /api/trips: trip 1 exists, without stops
Init ==
  /\ trips = {1}
  /\ stops = {}
  /\ segments = {}
  /\ nextTripId = 2
  /\ nextStopId = 1
  /\ lastRoutes = [t \in TripIds |-> "none"]
  /\ aborted = FALSE
  /\ reqs = [c \in Clients |-> NoRequest]

\* the response has reached the client, which can send its next request
Deliver(c) ==
  /\ Returned(c)
  /\ reqs' = [reqs EXCEPT ![c] = [NoRequest EXCEPT !.kept = reqs[c].kept]]
  /\ UNCHANGED <<trips, stops, segments, nextTripId, nextStopId, lastRoutes,
                 aborted>>

\* the server process stops: every handler that is between two statements
\* ends there, the committed statements stay
Crash ==
  /\ \E c \in Clients : Running(c)
  /\ reqs' = [c \in Clients |->
                IF Running(c) THEN [reqs[c] EXCEPT !.pc = "crashed"] ELSE reqs[c]]
  /\ UNCHANGED <<trips, stops, segments, nextTripId, nextStopId, lastRoutes,
                 aborted>>

\* ------------------------------------------------------------ trip CRUD
\* POST /api/trips arrives
BeginCreateTrip(c, named) ==
  /\ Free(c)
  /\ nextTripId + Cardinality({d \in Clients : At(d, "create_trip", "insert_trip")})
       <= MaxTrips
  /\ Arrive(c, [NoRequest EXCEPT !.op = "create_trip", !.named = named,
                                 !.pc = "insert_trip"])

\* if (!name) 400; INSERT INTO trips .. RETURNING *; 201
CreateTripInsert(c) ==
  /\ At(c, "create_trip", "insert_trip")
  /\ IF ~reqs[c].named
     THEN /\ Goto(c, [reqs[c] EXCEPT !.pc = "done", !.status = 400,
                                     !.error = "name required"])
          /\ UNCHANGED <<trips, nextTripId>>
     ELSE /\ trips' = trips \cup {nextTripId}
          /\ nextTripId' = nextTripId + 1
          /\ Goto(c, [reqs[c] EXCEPT !.pc = "done", !.status = 201,
                                     !.trip = nextTripId])
  /\ UNCHANGED <<stops, segments, nextStopId, lastRoutes>>

\* DELETE /api/trips/:id arrives
BeginDeleteTrip(c, id) ==
  /\ Free(c)
  /\ Arrive(c, [NoRequest EXCEPT !.op = "delete_trip", !.trip = id,
                              !.pc = "delete_trip"])

\* DELETE FROM trips WHERE id = ..; the stops and the segments cascade
DeleteTripDelete(c) ==
  /\ At(c, "delete_trip", "delete_trip")
  /\ LET id == reqs[c].trip
     IN /\ trips' = trips \ {id}
        /\ stops' = CascadeTrip(stops, id)
        /\ segments' = CascadeStops({g \in segments : g.trip_id # id},
                                    {s.id : s \in TripStops(stops, id)})
        /\ lastRoutes' = Mutated(id)
  /\ Goto(c, [reqs[c] EXCEPT !.pc = "done", !.status = 200])
  /\ UNCHANGED <<nextTripId, nextStopId>>

\* --------------------------------------------------------- stop management
\* the request bodies of POST /api/trips/:id/stops
Bodies ==
  [position : {<<>>} \cup {<<p>> : p \in Positions},
   timeline_entry_id : EntryRefs,
   latlng : BOOLEAN]

\* SELECT id FROM trip_stops WHERE trip_id = .. AND position IN (p - 1, p + 1)
\* has no ORDER BY: the rows come back in either order.
NeighborRows(S, tripId, position) ==
  LET ids == {s.id : s \in {n \in TripStops(S, tripId) :
                              n.position \in {position - 1, position + 1}}}
  IN {q \in UNION {[1..n -> ids] : n \in 0..2} :
        /\ Len(q) = Cardinality(ids)
        /\ \A i, j \in 1..Len(q) : i # j => q[i] # q[j]}

\* DELETE FROM trip_route_segments WHERE trip_id = .. AND
\* (from_stop_id = id OR to_stop_id = id)
InvalidateOwn(G, tripId, id) ==
  {g \in G : ~(g.trip_id = tripId /\ (g.from_stop_id = id \/ g.to_stop_id = id))}

\* DELETE FROM trip_route_segments WHERE trip_id = .. AND
\* from_stop_id = neighbors[0].id AND to_stop_id = neighbors[1].id
InvalidateJoin(G, tripId, neighbors) ==
  {g \in G : ~(/\ g.trip_id = tripId
               /\ g.from_stop_id = neighbors[1]
               /\ g.to_stop_id = neighbors[2])}

\* C24 mutant: the coordinate of the body is stored whenever it is present
NewStopKeepsBoth(tripId, position, body) ==
  [id |-> nextStopId, trip_id |-> tripId, position |-> position,
   timeline_entry_id |-> body.timeline_entry_id,
   waypoint_location |-> body.latlng]

\* the row the INSERT writes: the first branch whose condition holds
NewStop(tripId, position, body) ==
  [id |-> nextStopId, trip_id |-> tripId, position |-> position,
   timeline_entry_id |-> IF body.timeline_entry_id # 0
                         THEN body.timeline_entry_id ELSE 0,
   waypoint_location |-> body.timeline_entry_id = 0 /\ body.latlng]

\* the foreign keys of trip_stops
InsertStopRaises(tripId, body) ==
  \/ tripId \notin trips
  \/ body.timeline_entry_id # 0 /\ body.timeline_entry_id \notin TimelineEntries

\* C38 mutant: no unique constraint on (trip_id, position)
PositionNeverTaken(S, tripId, position) == FALSE

\* unique_position_per_trip UNIQUE (trip_id, position): a row of the trip
\* holds the position
PositionTaken(S, tripId, position) ==
  \E s \in TripStops(S, tripId) : s.position = position

\* C35 mutant: the shift is not limited to the trip
ShiftRowsAnyTrip(S, tripId, position) == {s \in S : s.position >= position}

\* the rows of UPDATE trip_stops .. WHERE trip_id = .. AND position >= ..
ShiftRows(S, tripId, position) ==
  {s \in TripStops(S, tripId) : s.position >= position}

\* POST /api/trips/:id/stops arrives
BeginAddStop(c, tripId, body) ==
  /\ Free(c)
  /\ nextStopId + Cardinality({d \in Clients : Running(d) /\ reqs[d].op = "add_stop"
                                  /\ reqs[d].pc \in {"max", "shift", "insert"}})
       <= MaxStops
  /\ \A s \in TripStops(stops, tripId) : s.position < TopPosition
  /\ Arrive(c, [NoRequest EXCEPT !.op = "add_stop", !.trip = tripId, !.body = body,
                  !.pc = IF body.position = <<>> THEN "max" ELSE "shift",
                  !.position = IF body.position = <<>> THEN 0 ELSE body.position[1]])

\* SELECT COALESCE(MAX(position), -1); position = max + 1
AddStopMax(c) ==
  /\ At(c, "add_stop", "max")
  /\ Goto(c, [reqs[c] EXCEPT !.pc = "insert",
                !.position = MaxPositionOf(stops, reqs[c].trip) + 1])
  /\ UNCHANGED <<trips, stops, segments, nextTripId, nextStopId, lastRoutes>>

\* UPDATE trip_stops SET position = position + 1 WHERE position >= position
AddStopShift(c) ==
  /\ At(c, "add_stop", "shift")
  /\ LET r == reqs[c]
         rows == ShiftRows(stops, r.trip, r.position)
     IN \/ /\ ShiftMayRaise(stops, r.trip, rows, 1)
           /\ Goto(c, [r EXCEPT !.pc = "failed", !.status = 500,
                                !.error = "unique_violation"])
           /\ UNCHANGED <<stops, lastRoutes>>
        \/ /\ ~ShiftMustRaise(stops, r.trip, rows, 1)
           /\ stops' = ShiftPositions(stops, rows, 1)
           /\ lastRoutes' = IF rows = {} THEN lastRoutes ELSE Mutated(r.trip)
           /\ Goto(c, [r EXCEPT !.pc = "insert"])
  /\ UNCHANGED <<trips, segments, nextTripId, nextStopId>>

\* the three branches on the location source: INSERT INTO trip_stops ..
\* RETURNING * with the timeline entry, or with the coordinate, or 400.
\* unique_position_per_trip raises when the position is held by now, the
\* foreign keys raise for a trip or an entry that does not exist.
AddStopInsert(c) ==
  /\ At(c, "add_stop", "insert")
  /\ LET r == reqs[c]
         stop == NewStop(r.trip, r.position, r.body)
     IN IF r.body.timeline_entry_id = 0 /\ ~r.body.latlng
        THEN /\ Goto(c, [r EXCEPT !.pc = "done", !.status = 400,
                           !.error = "Provide timeline_entry_id or lat/lng"])
             /\ UNCHANGED <<stops, nextStopId, lastRoutes>>
        ELSE IF PositionTaken(stops, r.trip, r.position)
        THEN /\ Goto(c, [r EXCEPT !.pc = "failed", !.status = 500,
                                  !.error = "unique_violation"])
             /\ nextStopId' = nextStopId + 1
             /\ UNCHANGED <<stops, lastRoutes>>
        ELSE IF InsertStopRaises(r.trip, r.body)
        THEN /\ Goto(c, [r EXCEPT !.pc = "failed", !.status = 500,
                                  !.error = "foreign_key_violation"])
             /\ nextStopId' = nextStopId + 1
             /\ UNCHANGED <<stops, lastRoutes>>
        ELSE /\ stops' = stops \cup {stop}
             /\ nextStopId' = nextStopId + 1
             /\ lastRoutes' = Mutated(r.trip)
             /\ Goto(c, [r EXCEPT !.pc = "own", !.stop = stop.id])
  /\ UNCHANGED <<trips, segments, nextTripId>>

\* DELETE FROM trip_route_segments WHERE from_stop_id = stop.id OR to_stop_id ..
AddStopOwn(c) ==
  /\ At(c, "add_stop", "own")
  /\ segments' = InvalidateOwn(segments, reqs[c].trip, reqs[c].stop)
  /\ Goto(c, [reqs[c] EXCEPT !.pc = "neighbors"])
  /\ UNCHANGED <<trips, stops, nextTripId, nextStopId, lastRoutes>>

\* SELECT id FROM trip_stops WHERE position IN (position - 1, position + 1);
\* without two rows the handler returns 201 here
AddStopNeighbors(c) ==
  /\ At(c, "add_stop", "neighbors")
  /\ \E neighbors \in NeighborRows(stops, reqs[c].trip, reqs[c].position) :
       Goto(c, IF Len(neighbors) = 2
               THEN [reqs[c] EXCEPT !.pc = "join", !.neighbors = neighbors]
               ELSE [reqs[c] EXCEPT !.pc = "done", !.neighbors = neighbors,
                                    !.status = 201])
  /\ UNCHANGED <<trips, stops, segments, nextTripId, nextStopId, lastRoutes>>

\* DELETE FROM trip_route_segments WHERE from_stop_id = neighbors[0].id AND
\* to_stop_id = neighbors[1].id; return 201
AddStopJoin(c) ==
  /\ At(c, "add_stop", "join")
  /\ segments' = InvalidateJoin(segments, reqs[c].trip, reqs[c].neighbors)
  /\ Goto(c, [reqs[c] EXCEPT !.pc = "done", !.status = 201])
  /\ UNCHANGED <<trips, stops, nextTripId, nextStopId, lastRoutes>>

\* C15 mutant: the stop is looked up by its id alone
FindStopAnyTrip(S, tripId, stopId) == {s \in S : s.id = stopId}

\* SELECT position FROM trip_stops WHERE id = stopId AND trip_id = tripId
FindStop(S, tripId, stopId) == {s \in S : s.id = stopId /\ s.trip_id = tripId}

\* DELETE /api/trips/:id/stops/:stopId arrives
BeginDeleteStop(c, tripId, stopId) ==
  /\ Free(c)
  /\ Arrive(c, [NoRequest EXCEPT !.op = "delete_stop", !.trip = tripId,
                              !.stopId = stopId, !.pc = "select"])

\* SELECT position FROM trip_stops WHERE id = .. AND trip_id = ..; 404 if none
DeleteStopSelect(c) ==
  /\ At(c, "delete_stop", "select")
  /\ LET found == FindStop(stops, reqs[c].trip, reqs[c].stopId)
     IN Goto(c, IF found = {}
                THEN [reqs[c] EXCEPT !.pc = "done", !.status = 404,
                                     !.error = "Not found"]
                ELSE [reqs[c] EXCEPT !.pc = "delete",
                        !.position = (CHOOSE s \in found : TRUE).position])
  /\ UNCHANGED <<trips, stops, segments, nextTripId, nextStopId, lastRoutes>>

\* DELETE FROM trip_stops WHERE id = stopId (segments cascade)
DeleteStopDelete(c) ==
  /\ At(c, "delete_stop", "delete")
  /\ stops' = {s \in stops : s.id # reqs[c].stopId}
  /\ segments' = CascadeStops(segments, {reqs[c].stopId})
  /\ lastRoutes' = Mutated(reqs[c].trip)
  /\ Goto(c, [reqs[c] EXCEPT !.pc = "renumber"])
  /\ UNCHANGED <<trips, nextTripId, nextStopId>>

\* UPDATE trip_stops SET position = position - 1 WHERE position > stop.position
DeleteStopRenumber(c) ==
  /\ At(c, "delete_stop", "renumber")
  /\ LET r == reqs[c]
         rows == {s \in TripStops(stops, r.trip) : s.position > r.position}
     IN \/ /\ ShiftMayRaise(stops, r.trip, rows, -1)
           /\ Goto(c, [r EXCEPT !.pc = "failed", !.status = 500,
                                !.error = "unique_violation"])
           /\ UNCHANGED stops
        \/ /\ ~ShiftMustRaise(stops, r.trip, rows, -1)
           /\ stops' = ShiftPositions(stops, rows, -1)
           /\ Goto(c, [r EXCEPT !.pc = "done", !.status = 200])
  /\ UNCHANGED <<trips, segments, nextTripId, nextStopId, lastRoutes>>

\* the reorder lists a request carries
Orders == UNION {[1..n -> StopIds] : n \in 0..MaxOrderLen}

\* C22 mutant: no staging, both loops write the final position
ReorderUpdatesUnstaged(order) ==
  [k \in 1..(2 * Len(order)) |->
     IF k <= Len(order)
     THEN [id |-> order[k], position |-> k - 1]
     ELSE [id |-> order[k - Len(order)], position |-> k - Len(order) - 1]]

\* C3 mutant: the second loop writes the one-based index
ReorderUpdatesOneBased(order) ==
  [k \in 1..(2 * Len(order)) |->
     IF k <= Len(order)
     THEN [id |-> order[k], position |-> -k]
     ELSE [id |-> order[k - Len(order)], position |-> k - Len(order)]]

\* the single-row UPDATEs of the two loops, in the order they are issued:
\* first every listed stop to -(i + 1), then every listed stop to i
ReorderUpdates(order) ==
  [k \in 1..(2 * Len(order)) |->
     IF k <= Len(order)
     THEN [id |-> order[k], position |-> -k]
     ELSE [id |-> order[k - Len(order)], position |-> k - Len(order) - 1]]

\* UPDATE trip_stops SET position = u.position WHERE id = u.id AND trip_id =
\* tripId: no row, or the row moves, or unique_position_per_trip raises
RunUpdate(S, tripId, u) ==
  LET row == {s \in TripStops(S, tripId) : s.id = u.id}
      taken == \E o \in TripStops(S, tripId) :
                  o.id # u.id /\ o.position = u.position
  IN IF row = {} THEN [stops |-> S, raised |-> FALSE]
     ELSE IF taken THEN [stops |-> S, raised |-> TRUE]
     ELSE [stops |-> ShiftPositions(S, row,
                       u.position - (CHOOSE s \in row : TRUE).position),
           raised |-> FALSE]

\* PUT /api/trips/:id/stops/reorder arrives; a body whose `order` is no array
\* carries no list
BeginReorder(c, tripId, order, isArray) ==
  /\ Free(c)
  /\ ~isArray => order = <<>>
  /\ Arrive(c, [NoRequest EXCEPT !.op = "reorder", !.trip = tripId,
                                 !.order = order, !.isArray = isArray,
                                 !.pc = "invalidate"])

\* if (!Array.isArray(order)) 400;
\* DELETE FROM trip_route_segments WHERE trip_id = tripId
ReorderInvalidate(c) ==
  /\ At(c, "reorder", "invalidate")
  /\ IF ~reqs[c].isArray
     THEN /\ Goto(c, [reqs[c] EXCEPT !.pc = "done", !.status = 400,
                        !.error = "order must be an array of stop IDs"])
          /\ UNCHANGED <<segments, lastRoutes>>
     ELSE /\ segments' = DeleteTripSegments(segments, reqs[c].trip)
          /\ lastRoutes' = Mutated(reqs[c].trip)
          /\ Goto(c, IF reqs[c].order = <<>>
                     THEN [reqs[c] EXCEPT !.pc = "done", !.status = 200]
                     ELSE [reqs[c] EXCEPT !.pc = "update", !.i = 1])
  /\ UNCHANGED <<trips, stops, nextTripId, nextStopId>>

\* the i-th single-row UPDATE of the two loops; 200 after the last one
ReorderUpdate(c) ==
  /\ At(c, "reorder", "update")
  /\ LET r == reqs[c]
         run == RunUpdate(stops, r.trip, ReorderUpdates(r.order)[r.i])
     IN IF run.raised
        THEN /\ Goto(c, [r EXCEPT !.pc = "failed", !.status = 500,
                                  !.error = "unique_violation"])
             /\ UNCHANGED stops
        ELSE /\ stops' = run.stops
             /\ Goto(c, IF r.i = 2 * Len(r.order)
                        THEN [r EXCEPT !.pc = "done", !.status = 200]
                        ELSE [r EXCEPT !.i = r.i + 1])
  /\ UNCHANGED <<trips, segments, nextTripId, nextStopId, lastRoutes>>

\* ------------------------------------------------------------ route generation
\* C9 mutant: the row is written with its endpoints swapped
UpsertReversed(G, tripId, from, to, route) ==
  {g \in G : ~(g.trip_id = tripId /\ g.from_stop_id = to /\ g.to_stop_id = from)}
    \cup {[trip_id |-> tripId, from_stop_id |-> to, to_stop_id |-> from,
           route |-> route]}

\* C34 mutant: the insert adds a row next to the one with the same key
UpsertAppends(G, tripId, from, to, route) ==
  G \cup {[trip_id |-> tripId, from_stop_id |-> from, to_stop_id |-> to,
           route |-> route]}

\* INSERT .. ON CONFLICT (trip_id, from_stop_id, to_stop_id) DO UPDATE
Upsert(G, tripId, from, to, route) ==
  {g \in G : ~(g.trip_id = tripId /\ g.from_stop_id = from /\ g.to_stop_id = to)}
    \cup {[trip_id |-> tripId, from_stop_id |-> from, to_stop_id |-> to,
           route |-> route]}

\* C8 mutant: the cache is looked up with the endpoints swapped
CachedReversed(G, tripId, from, to) ==
  \E g \in G : g.trip_id = tripId /\ g.from_stop_id = to /\ g.to_stop_id = from

\* SELECT id FROM trip_route_segments WHERE trip_id, from_stop_id, to_stop_id
Cached(G, tripId, from, to) ==
  \E g \in G : g.trip_id = tripId /\ g.from_stop_id = from /\ g.to_stop_id = to

\* C10 mutant: the answer of the provider is not checked
FetchNeverRaises(answer) == FALSE

\* fetchRouteSegment throws unless the provider answers with a route
FetchRaises(answer) == answer = Failure

\* C29 mutant: the call is issued a second time
CallProviderTwice(calls, call) == Append(Append(calls, call), call)

\* await fetchRouteSegment(..): one call to the provider, issued once
CallProvider(calls, call) == Append(calls, call)

\* what buildTripResponse puts in `route`: every stored segment of the trip
buildTripResponse(G, tripId) == TripSegments(G, tripId)

\* C16 mutant: a single stop is let through
TooFewStopsOffByOne(list) == Len(list) < 1

\* if (stops.length < 2)
TooFewStops(list) == Len(list) < 2

\* the outcome of a force=false run that ran on its own
RoutesOutcome(r, outcome) ==
  [lastRoutes EXCEPT ![r.trip] = IF r.force \/ ~r.alone THEN "none" ELSE outcome]

\* POST /api/trips/:id/routes arrives
BeginRoutes(c, tripId, force) ==
  /\ Free(c)
  /\ Arrive(c, [NoRequest EXCEPT !.op = "routes", !.trip = tripId,
                              !.force = force, !.pc = "load",
                              !.previous = lastRoutes[tripId]])

\* for (let i = 0; i < stops.length - 1; i++): the pair after pair i, with
\* its cache check, or its fetch under force; after the last pair the handler
\* builds its response
RoutesAdvance(r) ==
  IF r.i + 1 > Len(r.list) - 1
  THEN [r EXCEPT !.pc = "build_trip"]
  ELSE [r EXCEPT !.i = r.i + 1, !.pc = IF r.force THEN "fetch" ELSE "check"]

\* stops = await loadStopsWithCoords(tripId); 400 with fewer than 2 stops
RoutesLoad(c) ==
  /\ At(c, "routes", "load")
  /\ LET list == loadStopsWithCoords(stops, reqs[c].trip)
         ids == [k \in 1..Len(list) |-> list[k].id]
     IN Goto(c, IF TooFewStops(list)
                THEN [reqs[c] EXCEPT !.pc = "done", !.status = 400,
                        !.error = "Need at least 2 stops to generate routes"]
                ELSE IF reqs[c].force
                THEN [reqs[c] EXCEPT !.list = ids, !.pc = "force"]
                ELSE RoutesAdvance([reqs[c] EXCEPT !.list = ids]))
  /\ UNCHANGED <<trips, stops, segments, nextTripId, nextStopId, lastRoutes>>

\* if (force) DELETE FROM trip_route_segments WHERE trip_id = tripId
RoutesForce(c) ==
  /\ At(c, "routes", "force")
  /\ segments' = DeleteTripSegments(segments, reqs[c].trip)
  /\ lastRoutes' = Mutated(reqs[c].trip)
  /\ Goto(c, RoutesAdvance(reqs[c]))
  /\ UNCHANGED <<trips, stops, nextTripId, nextStopId>>

\* if (!force) SELECT id FROM trip_route_segments ..; if (existing) continue
RoutesCheck(c) ==
  /\ At(c, "routes", "check")
  /\ LET r == reqs[c]
     IN Goto(c, IF Cached(segments, r.trip, r.list[r.i], r.list[r.i + 1])
                THEN RoutesAdvance(r)
                ELSE [r EXCEPT !.pc = "fetch"])
  /\ UNCHANGED <<trips, stops, segments, nextTripId, nextStopId, lastRoutes>>

\* route = await fetchRouteSegment(..): the provider answers, or it throws
RoutesFetch(c, answer) ==
  /\ At(c, "routes", "fetch")
  /\ LET r == reqs[c]
         call == [from |-> r.list[r.i], to |-> r.list[r.i + 1], route |-> answer]
         called == [r EXCEPT !.calls = CallProvider(r.calls, call)]
     IN IF FetchRaises(answer)
        THEN /\ Goto(c, [called EXCEPT !.pc = "failed", !.status = 500,
                                       !.error = "Mapbox Directions failed"])
             /\ lastRoutes' = RoutesOutcome(r, "failed")
        ELSE /\ Goto(c, [called EXCEPT !.pc = "upsert", !.route = answer])
             /\ UNCHANGED lastRoutes
  /\ UNCHANGED <<trips, stops, segments, nextTripId, nextStopId>>

\* INSERT INTO trip_route_segments .. ON CONFLICT .. DO UPDATE; the foreign
\* keys from_stop_id / to_stop_id raise when a stop of the pair is gone
RoutesUpsert(c) ==
  /\ At(c, "routes", "upsert")
  /\ LET r == reqs[c]
         from == r.list[r.i]
         to == r.list[r.i + 1]
     IN IF {from, to} \subseteq {s.id : s \in stops}
        THEN /\ segments' = Upsert(segments, r.trip, from, to, r.route)
             /\ Goto(c, RoutesAdvance(r))
             /\ UNCHANGED lastRoutes
        ELSE /\ Goto(c, [r EXCEPT !.pc = "failed", !.status = 500,
                                  !.error = "foreign_key_violation"])
             /\ lastRoutes' = RoutesOutcome(r, "failed")
             /\ UNCHANGED segments
  /\ UNCHANGED <<trips, stops, nextTripId, nextStopId>>

\* GET /api/trips/:id arrives
BeginFetchTrip(c, tripId) ==
  /\ Free(c)
  /\ Arrive(c, [NoRequest EXCEPT !.op = "fetch_trip", !.trip = tripId,
                              !.pc = "build_trip"])

\* buildTripResponse: SELECT * FROM trips WHERE id = tripId; if (!trip) return
\* null, which the GET handler answers with 404 and the routes handler with
\* Response.json(null)
BuildTrip(c) ==
  /\ reqs[c].op \in {"fetch_trip", "routes"}
  /\ At(c, reqs[c].op, "build_trip")
  /\ LET r == reqs[c]
     IN IF r.trip \in trips
        THEN /\ Goto(c, [r EXCEPT !.pc = "build_stops"])
             /\ UNCHANGED lastRoutes
        ELSE IF r.op = "fetch_trip"
        THEN /\ Goto(c, [r EXCEPT !.pc = "done", !.status = 404,
                                  !.error = "Not found"])
             /\ UNCHANGED lastRoutes
        ELSE /\ Goto(c, [r EXCEPT !.pc = "done", !.status = 200])
             /\ lastRoutes' = RoutesOutcome(r, "ok")
  /\ UNCHANGED <<trips, stops, segments, nextTripId, nextStopId>>

\* buildTripResponse: stops = await loadStopsWithCoords(tripId)
BuildStops(c) ==
  /\ At(c, reqs[c].op, "build_stops")
  /\ LET list == loadStopsWithCoords(stops, reqs[c].trip)
     IN Goto(c, [reqs[c] EXCEPT !.pc = "build_segments",
                   !.shown = [k \in 1..Len(list) |-> list[k].id]])
  /\ UNCHANGED <<trips, stops, segments, nextTripId, nextStopId, lastRoutes>>

\* buildTripResponse: SELECT .. FROM trip_route_segments WHERE trip_id = ..;
\* the handler returns the trip with its stops and its route, 200
BuildSegments(c) ==
  /\ At(c, reqs[c].op, "build_segments")
  /\ LET r == reqs[c]
     IN /\ Goto(c, [r EXCEPT !.pc = "done", !.status = 200,
                      !.features = buildTripResponse(segments, r.trip)])
        /\ lastRoutes' = IF r.op = "routes" THEN RoutesOutcome(r, "ok")
                         ELSE lastRoutes
  /\ UNCHANGED <<trips, stops, segments, nextTripId, nextStopId>>

\* ------------------------------------------------------------- one caller
\* the bodies that carry no timeline entry
WaypointBodies == {b \in Bodies : b.timeline_entry_id = 0}

\* the trips the requests of Spec are addressed to
CoreTrips == {1}

\* the single writer of a trip: it sends a request when it has received the
\* response to the one before
Caller == 1

\* One caller works on the trip, with every request the server routes: its
\* handlers run statement by statement, one request after the other.
Next ==
  \/ \E tripId \in CoreTrips : \E body \in WaypointBodies :
       BeginAddStop(Caller, tripId, body)
  \/ AddStopMax(Caller)
  \/ AddStopShift(Caller)
  \/ AddStopInsert(Caller)
  \/ AddStopOwn(Caller)
  \/ AddStopNeighbors(Caller)
  \/ AddStopJoin(Caller)
  \/ \E tripId \in CoreTrips : \E stopId \in StopIds :
       BeginDeleteStop(Caller, tripId, stopId)
  \/ DeleteStopSelect(Caller)
  \/ DeleteStopDelete(Caller)
  \/ DeleteStopRenumber(Caller)
  \/ \E tripId \in CoreTrips : \E order \in Orders : \E isArray \in BOOLEAN :
       BeginReorder(Caller, tripId, order, isArray)
  \/ ReorderInvalidate(Caller)
  \/ ReorderUpdate(Caller)
  \/ \E tripId \in CoreTrips : \E force \in BOOLEAN :
       BeginRoutes(Caller, tripId, force)
  \/ RoutesLoad(Caller)
  \/ RoutesForce(Caller)
  \/ RoutesCheck(Caller)
  \/ \E answer \in Routes \cup {Failure} : RoutesFetch(Caller, answer)
  \/ RoutesUpsert(Caller)
  \/ \E tripId \in CoreTrips : BeginFetchTrip(Caller, tripId)
  \/ BuildTrip(Caller)
  \/ BuildStops(Caller)
  \/ BuildSegments(Caller)
  \/ Deliver(Caller)

Spec == Init /\ [][Next]_vars

\* ------------------------------------------------- trips and location sources
\* the bodies that leave the position to the handler (append)
SourceBodies == {b \in Bodies : b.position = <<>>}

\* the bodies that place a coordinate at the front of a trip or behind its
\* first stop
PlacedBodies ==
  {b \in WaypointBodies : b.latlng /\ b.position \in {<<0>>, <<1>>}}

\* the reorder lists of at most one stop id
ShortOrders == {order \in Orders : Len(order) <= 1}

\* every route of the server, on any trip id, existing or not, with stops of
\* either location source, from one caller
NextTrips ==
  \/ \E named \in BOOLEAN : BeginCreateTrip(Caller, named)
  \/ CreateTripInsert(Caller)
  \/ \E id \in TripIds : BeginDeleteTrip(Caller, id)
  \/ DeleteTripDelete(Caller)
  \/ \E tripId \in TripIds : \E body \in SourceBodies \cup PlacedBodies :
       BeginAddStop(Caller, tripId, body)
  \/ AddStopMax(Caller)
  \/ AddStopShift(Caller)
  \/ AddStopInsert(Caller)
  \/ AddStopOwn(Caller)
  \/ AddStopNeighbors(Caller)
  \/ AddStopJoin(Caller)
  \/ \E tripId \in TripIds : \E stopId \in StopIds :
       BeginDeleteStop(Caller, tripId, stopId)
  \/ DeleteStopSelect(Caller)
  \/ DeleteStopDelete(Caller)
  \/ DeleteStopRenumber(Caller)
  \/ \E tripId \in TripIds : \E order \in ShortOrders : \E isArray \in BOOLEAN :
       BeginReorder(Caller, tripId, order, isArray)
  \/ ReorderInvalidate(Caller)
  \/ ReorderUpdate(Caller)
  \/ \E tripId \in TripIds : \E force \in BOOLEAN :
       BeginRoutes(Caller, tripId, force)
  \/ RoutesLoad(Caller)
  \/ RoutesForce(Caller)
  \/ RoutesCheck(Caller)
  \/ \E answer \in Routes \cup {Failure} : RoutesFetch(Caller, answer)
  \/ RoutesUpsert(Caller)
  \/ \E tripId \in TripIds : BeginFetchTrip(Caller, tripId)
  \/ BuildTrip(Caller)
  \/ BuildStops(Caller)
  \/ BuildSegments(Caller)
  \/ Deliver(Caller)

SpecTrips == InitEmpty /\ [][NextTrips]_vars

\* ------------------------------------------------------ requests that overlap
\* Each client sends one request to the trip; at every await of a handler the
\* handler of the other request may run.

\* a trip of n appended stops, with every adjacent pair routed or none
InitSteps ==
  \E n \in 0..MaxStops : \E routed \in BOOLEAN :
    /\ trips = {1}
    /\ stops = {[id |-> k, trip_id |-> 1, position |-> k - 1,
                 timeline_entry_id |-> 0, waypoint_location |-> TRUE] : k \in 1..n}
    /\ segments = IF routed
                  THEN {[trip_id |-> 1, from_stop_id |-> k, to_stop_id |-> k + 1,
                         route |-> 1] : k \in 1..(n - 1)}
                  ELSE {}
    /\ nextTripId = 2
    /\ nextStopId = n + 1
    /\ lastRoutes = [t \in TripIds |-> "none"]
    /\ aborted = FALSE
    /\ reqs = [c \in Clients |-> NoRequest]

\* the bodies with a coordinate and a position that is absent or within 0..N
InRangeBodies(tripId) ==
  {b \in WaypointBodies :
     /\ b.latlng
     /\ b.position # <<>> =>
          b.position[1] \in 0..Cardinality(TripStops(stops, tripId))}

\* the reorder lists that name every stop of the trip once
FullOrders(tripId) ==
  {order \in Orders :
     /\ Len(order) = Cardinality(TripStops(stops, tripId))
     /\ {order[k] : k \in 1..Len(order)} = {s.id : s \in TripStops(stops, tripId)}}

NextSteps ==
  \/ \E c \in Clients : \E tripId \in CoreTrips : \E body \in InRangeBodies(tripId) :
       BeginAddStop(c, tripId, body)
  \/ \E c \in Clients : AddStopMax(c)
  \/ \E c \in Clients : AddStopShift(c)
  \/ \E c \in Clients : AddStopInsert(c)
  \/ \E c \in Clients : AddStopOwn(c)
  \/ \E c \in Clients : AddStopNeighbors(c)
  \/ \E c \in Clients : AddStopJoin(c)
  \/ \E c \in Clients : \E tripId \in CoreTrips : \E stopId \in StopIds :
       BeginDeleteStop(c, tripId, stopId)
  \/ \E c \in Clients : DeleteStopSelect(c)
  \/ \E c \in Clients : DeleteStopDelete(c)
  \/ \E c \in Clients : DeleteStopRenumber(c)
  \/ \E c \in Clients : \E tripId \in CoreTrips : \E order \in FullOrders(tripId) :
       BeginReorder(c, tripId, order, TRUE)
  \/ \E c \in Clients : ReorderInvalidate(c)
  \/ \E c \in Clients : ReorderUpdate(c)
  \/ \E c \in Clients : \E tripId \in CoreTrips : \E force \in BOOLEAN :
       BeginRoutes(c, tripId, force)
  \/ \E c \in Clients : RoutesLoad(c)
  \/ \E c \in Clients : RoutesForce(c)
  \/ \E c \in Clients : RoutesCheck(c)
  \/ \E c \in Clients : \E answer \in Routes \cup {Failure} : RoutesFetch(c, answer)
  \/ \E c \in Clients : RoutesUpsert(c)
  \/ \E c \in Clients : \E tripId \in CoreTrips : BeginFetchTrip(c, tripId)
  \/ \E c \in Clients : BuildTrip(c)
  \/ \E c \in Clients : BuildStops(c)
  \/ \E c \in Clients : BuildSegments(c)
  \/ \E c \in Clients : \E id \in CoreTrips : BeginDeleteTrip(c, id)
  \/ \E c \in Clients : DeleteTripDelete(c)
  \/ Crash

SpecSteps == InitSteps /\ [][NextSteps]_vars

\* ------------------------------------------------- a caller that retries
\* The caller sends generate-routes with force=false again and again to a
\* trip nobody mutates.  The handler runs on and the caller receives every
\* response; for each pair the provider answers with a route in infinitely
\* many of the runs.
\* a trip whose stops 1..n are in any order, with nothing cached yet
InitRetry ==
  \E order \in Orders :
    /\ \A k \in 1..Len(order) : \E j \in 1..Len(order) : order[j] = k
    /\ trips = {1}
    /\ stops = {[id |-> order[k], trip_id |-> 1, position |-> k - 1,
                 timeline_entry_id |-> 0, waypoint_location |-> TRUE] :
                   k \in 1..Len(order)}
    /\ segments = {}
    /\ nextTripId = 2
    /\ nextStopId = Len(order) + 1
    /\ lastRoutes = [t \in TripIds |-> "none"]
    /\ aborted = FALSE
    /\ reqs = [c \in Clients |-> NoRequest]

\* the provider answers the call for pair k with a route
RetryAnswered(k) ==
  /\ reqs[Caller].i = k
  /\ \E answer \in Routes : RoutesFetch(Caller, answer)

NextRetry ==
  \/ \E tripId \in CoreTrips : BeginRoutes(Caller, tripId, FALSE)
  \/ RoutesLoad(Caller)
  \/ RoutesCheck(Caller)
  \/ \E answer \in Routes \cup {Failure} : RoutesFetch(Caller, answer)
  \/ RoutesUpsert(Caller)
  \/ BuildTrip(Caller)
  \/ BuildStops(Caller)
  \/ BuildSegments(Caller)
  \/ Deliver(Caller)

SpecRetry ==
  /\ InitRetry
  /\ [][NextRetry]_vars
  /\ WF_vars(NextRetry)
  /\ \A k \in 1..(MaxStops - 1) : SF_vars(RetryAnswered(k))

\* ---------------------------------------------- an insert and its undo
\* A client inserts a stop into a trip with positions 0..N-1, keeps the stop
\* of the 201 response, and deletes that stop with its next request.
InitUndo ==
  \E n \in 0..(MaxStops - 1) : \E routed \in BOOLEAN :
    /\ trips = {1}
    /\ stops = {[id |-> k, trip_id |-> 1, position |-> k - 1,
                 timeline_entry_id |-> 0, waypoint_location |-> TRUE] : k \in 1..n}
    /\ segments = IF routed
                  THEN {[trip_id |-> 1, from_stop_id |-> k, to_stop_id |-> k + 1,
                         route |-> 1] : k \in 1..(n - 1)}
                  ELSE {}
    /\ nextTripId = 2
    /\ nextStopId = n + 1
    /\ lastRoutes = [t \in TripIds |-> "none"]
    /\ aborted = FALSE
    /\ reqs = [c \in Clients |-> NoRequest]

\* POST /api/trips/:id/stops with a position within 0..N, or none, on a trip
\* whose positions are 0..N-1
UndoInsert(tripId, body) ==
  /\ reqs[Caller].kept = NoKept
  /\ {s.position : s \in TripStops(stops, tripId)}
       = 0..(Cardinality(TripStops(stops, tripId)) - 1)
  /\ body.position # <<>> =>
       body.position[1] \in 0..Cardinality(TripStops(stops, tripId))
  /\ BeginAddStop(Caller, tripId, body)

\* the 201 response arrives: the client keeps the id of the created stop,
\* with the rows of the trip as they were before the insert
UndoReceive ==
  /\ At(Caller, "add_stop", "done")
  /\ reqs[Caller].status = 201
  /\ reqs' = [reqs EXCEPT ![Caller] =
                [NoRequest EXCEPT !.kept = [stop |-> reqs[Caller].stop,
                                            position |-> reqs[Caller].position,
                                            before |-> reqs[Caller].before]]]
  /\ UNCHANGED <<trips, stops, segments, nextTripId, nextStopId, lastRoutes,
                 aborted>>

\* any other response arrives
UndoDismiss ==
  /\ ~(At(Caller, "add_stop", "done") /\ reqs[Caller].status = 201)
  /\ Deliver(Caller)

\* DELETE /api/trips/:id/stops/:stopId of the stop just created
UndoDelete(tripId) ==
  /\ reqs[Caller].kept # NoKept
  /\ \E s \in stops : s.id = reqs[Caller].kept.stop
  /\ BeginDeleteStop(Caller, tripId, reqs[Caller].kept.stop)

NextUndo ==
  \/ \E tripId \in CoreTrips : \E body \in WaypointBodies : UndoInsert(tripId, body)
  \/ AddStopMax(Caller)
  \/ AddStopShift(Caller)
  \/ AddStopInsert(Caller)
  \/ AddStopOwn(Caller)
  \/ AddStopNeighbors(Caller)
  \/ AddStopJoin(Caller)
  \/ UndoReceive
  \/ UndoDismiss
  \/ \E tripId \in CoreTrips : UndoDelete(tripId)
  \/ DeleteStopSelect(Caller)
  \/ DeleteStopDelete(Caller)
  \/ DeleteStopRenumber(Caller)

SpecUndo == InitUndo /\ [][NextUndo]_vars

\* ------------------------------------------------------------ vocabulary
PositionsOf(S, tripId) == {s.position : s \in TripStops(S, tripId)}

\* the positions of the trip are exactly 0..N-1
Contiguous(S, tripId) ==
  PositionsOf(S, tripId) = 0..(Cardinality(TripStops(S, tripId)) - 1)

\* the stop ids of the trip read in position order
IdsInOrder(S, tripId) ==
  LET list == loadStopsWithCoords(S, tripId)
  IN [i \in 1..Len(list) |-> list[i].id]

\* segment g joins two stops of its trip that are adjacent now
JoinsAdjacent(S, g) ==
  \E a, b \in TripStops(S, g.trip_id) :
     /\ a.id = g.from_stop_id
     /\ b.id = g.to_stop_id
     /\ b.position = a.position + 1

IsPermutation(order, ids) ==
  /\ Len(order) = Cardinality(ids)
  /\ {order[i] : i \in 1..Len(order)} = ids

Touches(g, stopId) == g.from_stop_id = stopId \/ g.to_stop_id = stopId


\* ------------------------------------------------------------------ C1
\* C1: in a run of completed requests, a completed stop insert or stop delete
\* on a trip whose positions are 0..N-1 leaves the positions of the trip
\* exactly 0..N-1.
C1_PositionsStayContiguous ==
  (/\ ~aborted
   /\ resp.op \in {"add_stop", "delete_stop"}
   /\ Contiguous(pre.stops, resp.trip))
  => Contiguous(stops, resp.trip)

\* ------------------------------------------------------------------ C2
\* C2: in a run of completed requests, whenever no request is in progress,
\* every stored segment, and so every segment fetch-trip-detail serves, joins
\* two stops that are adjacent now.
C2_NoStaleSegment ==
  (~aborted /\ Quiet) => \A g \in segments \cup resp.route : JoinsAdjacent(stops, g)

\* ------------------------------------------------------------------ C3
\* C3: a reorder that completes on a list that is a permutation of the
\* trip's stop ids leaves the stop ids, read in position order, equal to the
\* list, at positions 0..N-1.
C3_ReorderMatchesList ==
  (/\ resp.op = "reorder"
   /\ resp.status = 200
   /\ IsPermutation(resp.order, {s.id : s \in TripStops(pre.stops, resp.trip)}))
  => /\ IdsInOrder(stops, resp.trip) = resp.order
     /\ Contiguous(stops, resp.trip)

\* the example of the claim: [C,A,B] on A=0, B=1, C=2
C3_Witness ==
  /\ resp.op = "reorder"
  /\ resp.status = 200
  /\ IdsInOrder(pre.stops, resp.trip) = <<1, 2, 3>>
  /\ Contiguous(pre.stops, resp.trip)
  /\ resp.order = <<3, 1, 2>>
  /\ IdsInOrder(stops, resp.trip) = <<3, 1, 2>>

\* ------------------------------------------------------------------ C4
\* C4: a reorder whose list is not a permutation of the trip's stop ids
\* fails with ValidationError (400) and leaves every position unchanged.
C4_InvalidReorderRejected ==
  (/\ resp.op = "reorder"
   /\ resp.isArray
   /\ ~IsPermutation(resp.order, {s.id : s \in TripStops(pre.stops, resp.trip)}))
  => /\ resp.status = 400
     /\ stops = pre.stops

\* ------------------------------------------------------------------ C5
\* C5: a completed insert at explicit position P between the stops at P-1
\* and P, whose joining segment is cached, removes that segment and no other.
C5_InsertRemovesJoiningSegment ==
  (/\ ~aborted
   /\ resp.op = "add_stop"
   /\ resp.status = 201
   /\ resp.body.position # <<>>)
  => \A a, b \in TripStops(pre.stops, resp.trip) :
        \A g \in pre.segments :
           (/\ a.position = resp.position - 1
            /\ b.position = resp.position
            /\ g.trip_id = resp.trip
            /\ g.from_stop_id = a.id
            /\ g.to_stop_id = b.id)
           => segments = pre.segments \ {g}

\* ------------------------------------------------------------------ C6
\* C6: a completed stop delete removes exactly the segments that touch the
\* stop, and afterwards no segment joins the stops that were just below and
\* just above it.
C6_DeleteRemovesTouchingSegments ==
  (/\ ~aborted
   /\ resp.op = "delete_stop"
   /\ resp.status = 200)
  => /\ segments = {g \in pre.segments : ~Touches(g, resp.stopId)}
     /\ \A a, b \in TripStops(pre.stops, resp.trip) :
           (a.position = resp.position - 1 /\ b.position = resp.position + 1)
           => ~Cached(segments, resp.trip, a.id, b.id)

\* ------------------------------------------------------------------ C7
\* C7: when a reorder completes the trip has no cached segment, and a trip
\* without cached segments gets one only from the upsert of a generate-routes
\* run on that trip.
C7_ReorderEmptiesCache ==
  [][/\ (resp'.op = "reorder" /\ resp'.status = 200)
          => TripSegments(segments', resp'.trip) = {}
     /\ \A t \in TripIds :
          (/\ TripSegments(segments, t) = {}
           /\ ~\E c \in Clients : At(c, "routes", "upsert") /\ reqs[c].trip = t)
          => TripSegments(segments', t) = {}]_vars

\* the identity permutation on a trip with cached segments
C7_Witness ==
  /\ resp.op = "reorder"
  /\ resp.status = 200
  /\ Len(resp.order) >= 2
  /\ IdsInOrder(pre.stops, resp.trip) = resp.order
  /\ TripSegments(pre.segments, resp.trip) # {}
  /\ TripSegments(segments, resp.trip) = {}

\* ------------------------------------------------------------------ C8
\* C8: a force=false run on a trip whose last force=false run completed, with
\* no mutation of the trip since, issues no provider call, completes and
\* leaves the cache unchanged.
C8_SecondRunIsCacheHit ==
  (/\ resp.op = "routes"
   /\ ~resp.force
   /\ resp.previous = "ok")
  => /\ resp.calls = <<>>
     /\ resp.status = 200
     /\ segments = pre.segments

C8_Witness ==
  /\ resp.op = "routes"
  /\ ~resp.force
  /\ resp.previous = "ok"
  /\ Cardinality(TripStops(stops, resp.trip)) = 3
  /\ Cardinality(TripSegments(segments, resp.trip)) = 2
  /\ resp.calls = <<>>

\* ------------------------------------------------------------------ C9
\* C9: a force=true run that completes has issued exactly one provider call
\* per consecutive pair of the trip, in order, and every such pair is cached
\* with the route that call returned.
C9_ForceRefetchesEveryPair ==
  (/\ resp.op = "routes"
   /\ resp.force
   /\ resp.status = 200)
  => LET ids == IdsInOrder(stops, resp.trip)
     IN /\ Len(ids) >= 2
        /\ Len(resp.calls) = Len(ids) - 1
        /\ \A i \in 1..(Len(ids) - 1) :
             /\ resp.calls[i].from = ids[i]
             /\ resp.calls[i].to = ids[i + 1]
             /\ [trip_id |-> resp.trip, from_stop_id |-> ids[i],
                 to_stop_id |-> ids[i + 1], route |-> resp.calls[i].route]
                  \in segments

\* a pair that was cached with another route is fetched again
C9_Witness ==
  /\ resp.op = "routes"
  /\ resp.force
  /\ resp.status = 200
  /\ Len(resp.calls) = 2
  /\ \E g \in pre.segments :
        /\ g.trip_id = resp.trip
        /\ g.from_stop_id = resp.calls[1].from
        /\ g.to_stop_id = resp.calls[1].to
        /\ g.route # resp.calls[1].route

\* ------------------------------------------------------------------ C10
\* C10: when a provider call of a run fails, it is the last call of the run,
\* the request ends in the provider's error, and every segment fetched
\* earlier in the run is cached.
C10_FailFastKeepsFetched ==
  (/\ resp.op = "routes"
   /\ \E i \in 1..Len(resp.calls) : resp.calls[i].route = Failure)
  => /\ resp.status = 500
     /\ resp.error = "Mapbox Directions failed"
     /\ resp.calls[Len(resp.calls)].route = Failure
     /\ \A i \in 1..(Len(resp.calls) - 1) :
          /\ resp.calls[i].route # Failure
          /\ [trip_id |-> resp.trip, from_stop_id |-> resp.calls[i].from,
              to_stop_id |-> resp.calls[i].to, route |-> resp.calls[i].route]
               \in segments

\* the second pair fails after the first was fetched
C10_Witness ==
  /\ resp.op = "routes"
  /\ resp.status = 500
  /\ Len(resp.calls) = 2
  /\ resp.calls[2].route = Failure
  /\ ~Cached(pre.segments, resp.trip, resp.calls[1].from, resp.calls[1].to)
  /\ Cached(segments, resp.trip, resp.calls[1].from, resp.calls[1].to)

\* ------------------------------------------------------------------ C11
\* C11: a force=false run that follows a failed force=false run on the same
\* unmutated trip issues provider calls only for pairs that have no cached
\* segment, so none for a pair the failed run fetched.
C11_RetrySkipsFetchedPairs ==
  (/\ resp.op = "routes"
   /\ ~resp.force
   /\ resp.previous = "failed")
  => \A i \in 1..Len(resp.calls) :
        ~\E g \in pre.segments :
            /\ g.trip_id = resp.trip
            /\ g.from_stop_id = resp.calls[i].from
            /\ g.to_stop_id = resp.calls[i].to

\* the failed run fetched the first pair; the retry calls for the second only
C11_Witness ==
  /\ resp.op = "routes"
  /\ ~resp.force
  /\ resp.previous = "failed"
  /\ LET ids == IdsInOrder(stops, resp.trip)
     IN /\ Len(ids) = 3
        /\ \E g \in pre.segments :
              g.from_stop_id = ids[1] /\ g.to_stop_id = ids[2]
        /\ Len(resp.calls) = 1
        /\ resp.calls[1].from = ids[2]
        /\ resp.calls[1].to = ids[3]

\* ------------------------------------------------------------------ C12
\* C12: an add-stop request with neither a timeline entry nor a coordinate
\* fails with ValidationError (400) and creates no stop.
C12_NoSourceRejected ==
  (/\ resp.op = "add_stop"
   /\ resp.body.timeline_entry_id = 0
   /\ ~resp.body.latlng)
  => /\ resp.status = 400
     /\ {s.id : s \in stops} = {s.id : s \in pre.stops}

\* ------------------------------------------------------------------ C14
\* C14: an add-stop request rejected with ValidationError leaves every
\* position unchanged, and a reorder that is rejected leaves the segment
\* cache unchanged.
C14_RejectionHasNoEffect ==
  /\ (resp.op = "add_stop" /\ resp.status = 400) => stops = pre.stops
  /\ (resp.op = "reorder" /\ resp.status >= 400) => segments = pre.segments

\* ------------------------------------------------------------------ C16
\* C16: generate-routes on a trip with fewer than 2 stops fails with
\* ValidationError (400), issues no provider call and leaves the cache
\* unchanged, with force or without.
C16_TooFewStopsRejected ==
  (/\ resp.op = "routes"
   /\ Cardinality(TripStops(pre.stops, resp.trip)) < 2)
  => /\ resp.status = 400
     /\ resp.calls = <<>>
     /\ segments = pre.segments

\* force=true on a trip with one stop
C16_Witness ==
  /\ resp.op = "routes"
  /\ resp.force
  /\ Cardinality(TripStops(pre.stops, resp.trip)) = 1
  /\ resp.status = 400

\* ------------------------------------------------------------------ C18
\* C18: when a provider call fails, the error response names the pair
\* (from-stop, to-stop) whose fetch failed.
C18_ErrorNamesFailedPair ==
  (/\ resp.op = "routes"
   /\ resp.status = 500)
  => LET failed == resp.calls[Len(resp.calls)]
     IN resp.pair = <<failed.from, failed.to>>

\* ------------------------------------------------------------------ C13
\* C13: an add-stop request carrying both a timeline entry and a coordinate
\* (here: an existing entry, on an existing trip) fails with ValidationError
\* (400) and creates no stop.
C13_BothSourcesRejected ==
  (/\ resp.op = "add_stop"
   /\ resp.trip \in trips
   /\ resp.body.timeline_entry_id \in TimelineEntries
   /\ resp.body.latlng)
  => /\ resp.status = 400
     /\ {s.id : s \in stops} = {s.id : s \in pre.stops}

\* ------------------------------------------------------------------ C15
\* C15: deleting a stop id that does not exist, or that belongs to another
\* trip than the one addressed, fails with NotFoundError (404) and changes
\* no stop and no segment of any trip.
C15_ForeignStopNotFound ==
  (/\ resp.op = "delete_stop"
   /\ ~\E s \in pre.stops : s.id = resp.stopId /\ s.trip_id = resp.trip)
  => /\ resp.status = 404
     /\ stops = pre.stops
     /\ segments = pre.segments

\* the stop exists, with a cached segment, in the other trip
C15_Witness ==
  /\ resp.op = "delete_stop"
  /\ resp.status = 404
  /\ \E s \in pre.stops : s.id = resp.stopId /\ s.trip_id # resp.trip
  /\ \E g \in pre.segments : g.from_stop_id = resp.stopId

\* ------------------------------------------------------------------ C17
\* C17: add-stop, delete-stop, reorder, generate-routes and fetch-trip
\* addressed to a trip that does not exist report NotFoundError (404) and
\* change nothing.
C17_MissingTripNotFound ==
  (/\ resp.op \in {"add_stop", "delete_stop", "reorder", "routes", "fetch_trip"}
   /\ resp.trip \notin trips)
  => /\ resp.status = 404
     /\ stops = pre.stops
     /\ segments = pre.segments

\* ------------------------------------------------------------------ C19
\* C19: when a single insert, delete or reorder handler stops after any of
\* its database statements, by a crash or by an error a later statement
\* raised, the trip's positions are still exactly 0..N-1 and no stored
\* segment joins stops that are not adjacent.
C19_StoppedHandlerLeavesTripConsistent ==
  \A c \in Clients :
    (/\ reqs[c].op \in {"add_stop", "delete_stop", "reorder"}
     /\ reqs[c].pc \in {"crashed", "failed"}
     /\ \A d \in Clients \ {c} : reqs[d].pc = "idle")
    => /\ Contiguous(stops, reqs[c].trip)
       /\ \A g \in segments : JoinsAdjacent(stops, g)

\* ------------------------------------------------------------------ C20
\* C20: once two concurrent mutation requests on the same trip, their
\* statements interleaved, have both returned successfully, the trip's
\* positions are exactly 0..N-1.
C20_ConcurrentMutationsStayContiguous ==
  (\A c \in Clients : /\ reqs[c].op \in {"add_stop", "delete_stop", "reorder"}
                      /\ reqs[c].pc = "done"
                      /\ reqs[c].status \in {200, 201})
  => \A tripId \in CoreTrips : Contiguous(stops, tripId)

\* ------------------------------------------------------------------ C23
\* C23: after a trip is deleted no stop and no segment carries its id, and
\* the stops and segments of every other trip are as they were.
C23_TripDeleteCascades ==
  resp.op = "delete_trip"
  => /\ TripStops(stops, resp.trip) = {}
     /\ TripSegments(segments, resp.trip) = {}
     /\ \A t \in TripIds \ {resp.trip} :
          /\ TripStops(stops, t) = TripStops(pre.stops, t)
          /\ TripSegments(segments, t) = TripSegments(pre.segments, t)

\* the deleted trip had a cached segment and the other trip has a stop
C23_Witness ==
  /\ resp.op = "delete_trip"
  /\ TripSegments(pre.segments, resp.trip) # {}
  /\ \E t \in TripIds \ {resp.trip} : TripStops(stops, t) # {}

\* ------------------------------------------------------------------ C24
\* C24: in every reachable state every stored stop has exactly one location
\* source: a timeline-entry reference or a waypoint coordinate, never both
\* and never neither.
C24_ExactlyOneSource ==
  \A s \in stops : (s.timeline_entry_id # 0) # s.waypoint_location

\* a stop of each kind is stored, the entry stop from a body with both sources
C24_Witness ==
  /\ \E s \in stops : s.timeline_entry_id # 0
  /\ \E s \in stops : s.waypoint_location
  /\ resp.op = "add_stop" /\ resp.status = 201
  /\ resp.body.timeline_entry_id # 0 /\ resp.body.latlng

\* ------------------------------------------------------------------ C25
\* C25: an insert with a coordinate at explicit position P, 0 <= P <= N, on a
\* trip with positions 0..N-1 is carried out: every stop that was at a
\* position >= P is one higher, every stop below P is where it was and the
\* new stop is at P; an insert without position puts the new stop at
\* max(position)+1 (0 on a trip without stops) and moves no stop.
C25_InsertShiftsFromPosition ==
  (/\ resp.op = "add_stop"
   /\ resp.body.latlng
   /\ Contiguous(pre.stops, resp.trip)
   /\ resp.body.position # <<>> =>
        resp.body.position[1] \in 0..Cardinality(TripStops(pre.stops, resp.trip)))
  => LET before == TripStops(pre.stops, resp.trip)
         P == IF resp.body.position # <<>> THEN resp.body.position[1]
              ELSE Cardinality(before)
     IN /\ resp.status = 201
        /\ \E new \in TripStops(stops, resp.trip) :
             new.id = resp.stop /\ new.id \notin {s.id : s \in before}
                                /\ new.position = P
        /\ \A s \in before : \E t \in TripStops(stops, resp.trip) :
             /\ t.id = s.id
             /\ t.position = IF s.position >= P THEN s.position + 1 ELSE s.position

\* ------------------------------------------------------------------ C26
\* C26: deleting the stop at position P of a trip with positions 0..N-1 is
\* carried out: the stop is gone, every stop that was above P is one lower,
\* every stop below P is where it was, and the other stops keep their ids.
C26_DeleteCompactsAbove ==
  (/\ resp.op = "delete_stop"
   /\ Contiguous(pre.stops, resp.trip)
   /\ \E s \in TripStops(pre.stops, resp.trip) : s.id = resp.stopId)
  => LET before == TripStops(pre.stops, resp.trip)
         P == (CHOOSE s \in before : s.id = resp.stopId).position
     IN /\ resp.status = 200
        /\ {t.id : t \in TripStops(stops, resp.trip)}
             = {s.id : s \in before} \ {resp.stopId}
        /\ \A s \in before : s.id # resp.stopId =>
             \E t \in TripStops(stops, resp.trip) :
               /\ t.id = s.id
               /\ t.position = IF s.position > P THEN s.position - 1 ELSE s.position

\* ------------------------------------------------------------------ C27
\* C27: after a generate-routes run answered 200 on a trip of N >= 2 stops,
\* the cache holds a segment for every pair of consecutive stops of the trip
\* and for no other pair, N-1 segments in all.
C27_CleanAfterRoutes ==
  (/\ resp.op = "routes"
   /\ resp.status = 200)
  => LET ids == IdsInOrder(stops, resp.trip)
     IN {<<g.from_stop_id, g.to_stop_id>> : g \in TripSegments(segments, resp.trip)}
          = {<<ids[i], ids[i + 1]>> : i \in 1..(Len(ids) - 1)}

\* ------------------------------------------------------------------ C28
\* C28: within one generate-routes run every provider call is for a pair of
\* consecutive stops, the calls are issued in increasing position of the
\* from-stop, and when the call for a pair is issued every earlier pair is
\* cached already (force=false) or was fetched and upserted in this run.
C28_CallsInPositionOrder ==
  resp.op = "routes"
  => LET T == TripStops(stops, resp.trip)
         Consecutive(a, b) ==
           /\ a.position < b.position
           /\ ~\E m \in T : a.position < m.position /\ m.position < b.position
         calls == resp.calls
     IN /\ \A j \in 1..Len(calls) : \E a, b \in T :
             /\ a.id = calls[j].from /\ b.id = calls[j].to /\ Consecutive(a, b)
             /\ \A i \in 1..(j - 1) : \E e \in T :
                  e.id = calls[i].from /\ e.position < a.position
             /\ \A e, f \in T :
                  (Consecutive(e, f) /\ e.position < a.position)
                  => \/ /\ ~resp.force
                        /\ \E g \in pre.segments :
                             /\ g.trip_id = resp.trip
                             /\ g.from_stop_id = e.id /\ g.to_stop_id = f.id
                     \/ \E i \in 1..(j - 1) :
                          /\ calls[i].from = e.id /\ calls[i].to = f.id
                          /\ [trip_id |-> resp.trip, from_stop_id |-> e.id,
                              to_stop_id |-> f.id, route |-> calls[i].route]
                               \in segments

\* a forced run on three stops whose second call fails after the first pair
\* was fetched and upserted
C28_Witness ==
  /\ resp.op = "routes"
  /\ resp.force
  /\ Len(resp.calls) = 2
  /\ resp.calls[1].route # Failure
  /\ resp.calls[2].route = Failure

\* ------------------------------------------------------------------ C29
\* C29: a generate-routes run never retries: it ends, in success or in
\* error, having issued at most one provider call per pair and at most N-1
\* calls on a trip of N stops.
C29_NoRetry ==
  resp.op = "routes"
  => /\ resp.status \in {200, 400, 500}
     /\ Len(resp.calls) <= Cardinality(TripStops(stops, resp.trip)) - 1
          \/ resp.calls = <<>>
     /\ \A i, j \in 1..Len(resp.calls) :
          (resp.calls[i].from = resp.calls[j].from
             /\ resp.calls[i].to = resp.calls[j].to) => i = j

\* the run ends in error at the first pair of a trip of three stops: one
\* call, no second attempt
C29_Witness ==
  /\ resp.op = "routes"
  /\ resp.status = 500
  /\ Cardinality(TripStops(stops, resp.trip)) = 3
  /\ Len(resp.calls) = 1
  /\ resp.calls[1].route = Failure

\* ------------------------------------------------------------------ C30
\* C30: while the caller keeps retrying generate-routes with force=false on
\* a trip that is not mutated and the provider eventually answers each pair
\* with a route, the set of cached pairs never shrinks from one step to the
\* next, and eventually every pair of consecutive stops has a cached segment.
C30_RetriesConverge ==
  /\ [][{<<g.from_stop_id, g.to_stop_id>> : g \in segments}
          \subseteq {<<g.from_stop_id, g.to_stop_id>> : g \in segments'}]_vars
  /\ <>(\A tripId \in CoreTrips :
          LET ids == IdsInOrder(stops, tripId)
          IN \A i \in 1..(Len(ids) - 1) : \E g \in segments :
               /\ g.trip_id = tripId
               /\ g.from_stop_id = ids[i]
               /\ g.to_stop_id = ids[i + 1])

\* a retry after a failed run fetches the missing pair and completes the
\* cache of a trip of three stops
C30_Witness ==
  /\ resp.op = "routes"
  /\ resp.previous = "failed"
  /\ resp.status = 200
  /\ Len(resp.calls) = 1
  /\ pre.segments # {}
  /\ Cardinality(TripSegments(segments, resp.trip)) = 2
  /\ Cardinality(TripStops(stops, resp.trip)) = 3

\* ------------------------------------------------------------------ C22
\* C22: while a reorder with a permutation runs alone on a trip with
\* positions 0..N-1, in every state between its single-row writes no two
\* stops of the trip hold the same position and no write is refused by
\* unique_position_per_trip; once the first loop is through, every stop is
\* at a negative position.
C22_ReorderStagesPositions ==
  \A c \in Clients :
    (/\ reqs[c].op = "reorder"
     /\ \A d \in Clients \ {c} : reqs[d].pc = "idle")
    => LET T == TripStops(stops, reqs[c].trip)
       IN /\ reqs[c].pc # "failed"
          /\ \A s, t \in T : s.id # t.id => s.position # t.position
          /\ (reqs[c].pc = "update" /\ reqs[c].i = Len(reqs[c].order) + 1)
               => \A s \in T : s.position < 0

\* between the two loops of a reorder of three stops that moves every stop
C22_Witness ==
  /\ reqs[1].op = "reorder"
  /\ reqs[1].pc = "update"
  /\ reqs[1].order = <<3, 1, 2>>
  /\ reqs[1].i = 4
  /\ reqs[2].pc = "idle"
  /\ {s.position : s \in stops} = {-1, -2, -3}

\* ------------------------------------------------------------------ C21
\* C21: once a generate-routes run and an insert or a reorder on the same
\* trip, their statements interleaved, have both returned successfully, the
\* cache holds no segment for a pair of stops that is not adjacent.  (The
\* insert is one whose neighbours query returned the rows in position
\* order, so that its own invalidation removed the joining segment.)
C21_RoutesRaceLeavesNoStaleSegment ==
  \A c, d \in Clients :
    (/\ reqs[c].op = "routes" /\ reqs[c].pc = "done" /\ reqs[c].status = 200
     /\ reqs[d].pc = "done"
     /\ \/ reqs[d].op = "reorder" /\ reqs[d].status = 200
        \/ /\ reqs[d].op = "add_stop" /\ reqs[d].status = 201
           /\ Len(reqs[d].neighbors) = 2 =>
                \E a, b \in stops :
                  /\ a.id = reqs[d].neighbors[1] /\ b.id = reqs[d].neighbors[2]
                  /\ a.position < b.position)
    => \A g \in segments : JoinsAdjacent(stops, g)

\* ------------------------------------------------------------------ C32
\* C32: a generate-routes run changes the cache only by upserting the
\* segment of a pair whose provider call succeeded in this run: every
\* segment cached before is still cached unless a successful call replaced
\* it, and every segment that is new was answered by a successful call.
C32_RunOnlyUpserts ==
  resp.op = "routes"
  => LET Fetched(g) ==
           \E i \in 1..Len(resp.calls) :
             /\ resp.calls[i].route # Failure
             /\ resp.calls[i].from = g.from_stop_id
             /\ resp.calls[i].to = g.to_stop_id
     IN /\ \A g \in pre.segments : g \in segments \/ Fetched(g)
        /\ \A g \in segments \ pre.segments : Fetched(g)

\* ------------------------------------------------------------------ C33
\* C33: an insert at position 0, or an append after the last stop, removes
\* no segment: every segment cached before it is cached after it.
C33_EdgeInsertKeepsCache ==
  (/\ resp.op = "add_stop"
   /\ resp.status = 201
   /\ resp.body.position \in {<<>>, <<0>>})
  => pre.segments \subseteq segments

\* ------------------------------------------------------------------ C35
\* C35: an insert, delete, reorder or generate-routes request addressed to
\* one trip changes no stop and no segment of any other trip, also when it
\* carries the id of a stop of another trip.
C35_OtherTripsUntouched ==
  resp.op \in {"add_stop", "delete_stop", "reorder", "routes"}
  => \A t \in TripIds \ {resp.trip} :
       /\ TripStops(stops, t) = TripStops(pre.stops, t)
       /\ TripSegments(segments, t) = TripSegments(pre.segments, t)

\* an insert at position 0 moved a stop of its trip up while the other trip
\* holds a stop at a position the same UPDATE would match without its trip
\* condition
C35_Witness ==
  /\ resp.op = "add_stop"
  /\ resp.status = 201
  /\ resp.body.position = <<0>>
  /\ \E s \in TripStops(pre.stops, resp.trip) : s.position = 0
  /\ \E t \in TripIds \ {resp.trip} : \E s \in TripStops(stops, t) :
        s.position >= 0

\* ------------------------------------------------------------------ C34
\* C34: in every reachable state a key (trip, from stop, to stop) has at
\* most one cached segment, also when two generate-routes requests fetch the
\* same pair and both write it.
C34_OneSegmentPerKey ==
  \A g \in segments : \A h \in segments :
    (/\ g.trip_id = h.trip_id
     /\ g.from_stop_id = h.from_stop_id
     /\ g.to_stop_id = h.to_stop_id)
    => g = h

\* two requests fetched the single pair of the same list, got different
\* routes, and both wrote it
C34_Witness ==
  /\ \A c \in Clients :
       /\ reqs[c].op = "routes"
       /\ reqs[c].pc = "done"
       /\ reqs[c].status = 200
       /\ Len(reqs[c].list) = 2
       /\ reqs[c].route \in Routes
  /\ reqs[1].list = reqs[2].list
  /\ reqs[1].route # reqs[2].route
  /\ \E g \in segments : /\ g.from_stop_id = reqs[1].list[1]
                         /\ g.to_stop_id = reqs[1].list[2]

\* ------------------------------------------------------------------ C36
\* C36: both endpoints of every cached segment are existing stops, distinct
\* from each other, of the trip the segment belongs to; no segment outlives
\* one of its endpoints.
C36_EndpointsExist ==
  \A g \in segments :
    /\ g.from_stop_id # g.to_stop_id
    /\ \E s \in stops : s.id = g.from_stop_id /\ s.trip_id = g.trip_id
    /\ \E s \in stops : s.id = g.to_stop_id /\ s.trip_id = g.trip_id

\* a stop with a cached segment was deleted while a generate-routes run held
\* it in its list, and segments of the remaining stops are cached
C36_Witness ==
  \E c \in Clients : \E d \in Clients :
    /\ reqs[c].op = "delete_stop"
    /\ reqs[c].pc \in {"renumber", "done"}
    /\ reqs[d].op = "routes"
    /\ reqs[d].pc \in {"done", "failed"}
    /\ \E k \in 1..Len(reqs[d].list) : reqs[d].list[k] = reqs[c].stopId
    /\ segments # {}

\* ------------------------------------------------------------------ C38
\* C38: under any interleaving of concurrent add-stop requests no two stored
\* stops of a trip share a position; when two appends computed the same
\* position, the unique constraint rejected the INSERT of exactly one.
C38_PositionsUnique ==
  /\ \A s \in stops : \A t \in stops :
       (s.trip_id = t.trip_id /\ s.position = t.position) => s = t
  /\ LET IsAppend(c) == reqs[c].op = "add_stop" /\ reqs[c].body.position = <<>>
         Inserted(c) == reqs[c].stop # 0
         Rejected(c) == reqs[c].pc = "failed" /\ reqs[c].status = 500
     IN \A c \in Clients : \A d \in Clients \ {c} :
          (/\ IsAppend(c) /\ IsAppend(d)
           /\ Inserted(c) \/ Rejected(c)
           /\ Inserted(d) \/ Rejected(d)
           /\ reqs[c].trip = reqs[d].trip
           /\ reqs[c].position = reqs[d].position)
          => (Inserted(c) /\ Rejected(d)) \/ (Rejected(c) /\ Inserted(d))

\* two appends computed the same position: one answered 201, the other 500
C38_Witness ==
  /\ reqs[1].op = "add_stop" /\ reqs[2].op = "add_stop"
  /\ reqs[1].body.position = <<>> /\ reqs[2].body.position = <<>>
  /\ reqs[1].position = reqs[2].position
  /\ reqs[1].pc = "done" /\ reqs[1].status = 201
  /\ reqs[2].pc = "failed" /\ reqs[2].status = 500
  /\ \E s \in stops : s.id = reqs[1].stop /\ s.position = reqs[1].position

\* ------------------------------------------------------------------ C31
\* the next statement of the handler of client d
StepOf(d) ==
  \/ AddStopMax(d) \/ AddStopShift(d) \/ AddStopInsert(d) \/ AddStopOwn(d)
  \/ AddStopNeighbors(d) \/ AddStopJoin(d)
  \/ DeleteStopSelect(d) \/ DeleteStopDelete(d) \/ DeleteStopRenumber(d)
  \/ ReorderInvalidate(d) \/ ReorderUpdate(d)
  \/ RoutesLoad(d) \/ RoutesForce(d) \/ RoutesCheck(d) \/ RoutesUpsert(d)
  \/ \E answer \in Routes \cup {Failure} : RoutesFetch(d, answer)
  \/ BuildTrip(d) \/ BuildStops(d) \/ BuildSegments(d)
  \/ DeleteTripDelete(d)

\* while the provider call of c is outstanding, the next statement of every
\* other running handler can execute
C31_NothingHeld ==
  \A c \in Clients : \A d \in Clients \ {c} :
    (At(c, "routes", "fetch") /\ Running(d)) => ENABLED StepOf(d)

\* the provider's answer writes nothing and leads to the upsert of that pair;
\* the upsert, a step of its own, writes the answered route for the pair, and
\* a call for the next pair is issued only from there
C31_OwnStep ==
  \A c \in Clients :
    /\ (At(c, "routes", "fetch") /\ reqs'[c].pc # reqs[c].pc)
       => /\ segments' = segments
          /\ stops' = stops
          /\ reqs'[c].pc \in {"upsert", "failed", "crashed"}
          /\ reqs'[c].pc = "upsert" => /\ reqs'[c].i = reqs[c].i
                                       /\ reqs'[c].route \in Routes
    /\ (/\ At(c, "routes", "upsert")
        /\ reqs'[c].pc \notin {"upsert", "failed", "crashed"})
       => /\ [trip_id |-> reqs[c].trip, from_stop_id |-> reqs[c].list[reqs[c].i],
              to_stop_id |-> reqs[c].list[reqs[c].i + 1],
              route |-> reqs[c].route] \in segments'
          /\ reqs'[c].pc \in {"fetch", "check", "build_trip"}
          /\ reqs'[c].pc = "fetch" => reqs'[c].i = reqs[c].i + 1
    /\ (reqs[c].op = "routes" /\ reqs[c].pc # "fetch" /\ reqs'[c].pc = "fetch")
       => reqs[c].pc \in {"force", "check", "upsert"}

\* C31: in a generate-routes run each segment is written in a step of its own
\* after its provider response and before the next provider call, and nothing
\* is held during a provider call: every other request can execute its next
\* read or write while the call is outstanding.
C31_WriteBetweenCalls == []C31_NothingHeld /\ [][C31_OwnStep]_vars

\* the second provider call of a run is outstanding, the first pair is
\* cached, and another request is in the middle of writing the trip
C31_Witness ==
  /\ At(1, "routes", "fetch")
  /\ reqs[1].i = 2
  /\ \E g \in segments : /\ g.from_stop_id = reqs[1].list[1]
                         /\ g.to_stop_id = reqs[1].list[2]
                         /\ g.route = reqs[1].route
  /\ At(2, "add_stop", "own")
  /\ \E s \in stops : s.id = reqs[2].stop

\* ------------------------------------------------------------------ C37
\* C37: inserting a stop at any position 0..N of a trip with positions 0..N-1
\* and then deleting that stop restores the position of every other stop; the
\* cache afterwards is a subset of the cache before the insert, lacking at
\* most the segment that joined the two neighbours of the insertion point.
C37_InsertDeleteRestores ==
  (/\ resp.op = "delete_stop"
   /\ reqs[Caller].kept # NoKept
   /\ resp.stopId = reqs[Caller].kept.stop
   /\ \E s \in pre.stops : s.id = reqs[Caller].kept.stop)
  => LET before == reqs[Caller].kept.before
         p == reqs[Caller].kept.position
     IN /\ stops = before.stops
        /\ segments \subseteq before.segments
        /\ \A g \in before.segments \ segments :
             \E a, b \in before.stops :
               /\ a.id = g.from_stop_id /\ a.position = p - 1
               /\ b.id = g.to_stop_id /\ b.position = p
====
